---- MODULE Spec2Model ----
(***************************************************************************)
(* Model of juztin/ethtxprint: NewTransaction (the derivation of a         *)
(* transaction snapshot from four chain-data reads), Transaction.String    *)
(* (the report) and main (one derivation, then the report), run against a  *)
(* node whose chain grows while the reads are in flight.                   *)
(*                                                                         *)
(* Go pointers (to big.Int, to common.Address) and errors are modelled as  *)
(* sequences of length at most one: Nil is the nil pointer, Ptr(x) points  *)
(* to x.  Non-pointer struct fields start at Go's zero value.              *)
(* big.Int arithmetic is TLA+ integer arithmetic.  uint64 arithmetic wraps *)
(* at Uint64Mod; TLC's integers are 32 bits wide, so the modulus is scaled *)
(* down from 2^64 (every block height of the model is far below it).       *)
(* Durations are in whole seconds.                                         *)
(***************************************************************************)
EXTENDS Integers, Sequences, FiniteSets, TLC

VARIABLES
    chainHead,  \* the node: height of the current head block
    txBlock,    \* the node: height of the block holding the transaction, 0 while pending
    london,     \* the node: TRUE when block headers carry a base fee
    tx,         \* the node: the transaction stored under the hash
    pc,         \* position of the program
    t,          \* NewTransaction: the snapshot under construction (t := &Transaction{...})
    pending,    \* NewTransaction: local pending
    head,       \* NewTransaction: local head
    r,          \* NewTransaction: local r (the receipt)
    b,          \* NewTransaction: local b (the containing block)
    ret,        \* NewTransaction: the returned pair (t, err), Nil before it returns
    log,        \* the reads issued by the current call, in order, with their outcome
    panicAt,    \* source line of the nil dereference that ended the program, 0 if none
    out,        \* main: the report printed, Nil before it is printed
    prev,       \* the previous completed derivation of a mined transaction (head, confirmations)
    runs        \* number of derivations started

vars == <<chainHead, txBlock, london, tx, pc, t, pending, head, r, b, ret, log,
          panicAt, out, prev, runs>>

----------------------------------------------------------------------------
\* Bounds of the model.
MaxHead == 3
MaxFee == 1
MaxGas == 2
MaxRuns == 2

----------------------------------------------------------------------------
\* Pointers.
Nil == << >>
Ptr(x) == <<x>>
Deref(p) == p[1]

\* The status enumeration.
StatusUnknown == 0
StatusPending == 1
StatusFailed == 2
StatusSuccessful == 3

\* uint64 wrap-around (scaled, see the header).
Uint64Mod == 2^30

Sub64Swapped(x, y) == (y - x) % Uint64Mod
\* head.NumberU64() - r.BlockNumber.Uint64()
Sub64(x, y) == (x - y) % Uint64Mod

BigAdd(x, y) == x + y

BigMulWord(x, y) == (x * y) % 4
\* big.NewInt(0).Mul(x, y)
BigMul(x, y) == x * y

BigSub(x, y) == x - y

----------------------------------------------------------------------------
\* What the node can answer.
Hash == "0xh"
ZeroAddress == "0x0"
Errors == {"not found", "timeout"}
TxTypes == {0, 1, 2}
ReceiptStatuses == {0, 1, 2}
Ages == {-5, 0, 30, 60, 1800, 3600, 7300, 86399, 86400, 86401, 90000}

\* tx.GasTipCap() and tx.GasFeeCap() of a legacy or access-list transaction
\* both return its gas price, so the two agree unless the type is 0x2.
Txs ==
    { x \in [to : {Nil, Ptr("0xt")}, value : {5}, type : TxTypes, gas : {MaxGas},
             nonce : {7}, data : {"0xd"}, tipCap : 0..MaxFee, feeCap : 0..MaxFee,
             sigOK : BOOLEAN, sender : {"0xs"}] :
        /\ (x.type # 2 => x.tipCap = x.feeCap)
        /\ (x.type = 1 => x.sigOK) }

\* header.BaseFee of a block of this chain: nil before the London fork.
HeaderBaseFees == IF london THEN {Ptr(f) : f \in 0..MaxFee} ELSE {Nil}

\* t := &Transaction{hash: hash}
Transaction(hash) ==
    [hash |-> hash, status |-> StatusUnknown, block |-> Nil, blockIndex |-> 0,
     blockTime |-> 0, confirmations |-> 0, from |-> Nil, to |-> Nil, value |-> Nil,
     txFee |-> Nil, gasPrice |-> Nil, txType |-> 0, gasLimit |-> 0, gasUsed |-> Nil,
     gasUsedPct |-> 0, baseFee |-> Nil, maxFee |-> Nil, maxPriorityFee |-> Nil,
     burntFees |-> Nil, txSavings |-> Nil, nonce |-> 0, data |-> ""]

Call(op, err) == [op |-> op, err |-> err]

Init ==
    /\ chainHead = 1
    /\ txBlock \in {0, 1}
    /\ london \in BOOLEAN
    /\ tx \in Txs
    /\ (~london => tx.type # 2)
    /\ pc = "TransactionByHash"
    /\ t = Transaction(Hash)
    /\ pending = FALSE
    /\ head = Nil
    /\ r = Nil
    /\ b = Nil
    /\ ret = Nil
    /\ log = << >>
    /\ panicAt = 0
    /\ out = Nil
    /\ prev = Nil
    /\ runs = 1

----------------------------------------------------------------------------
\* The node.

\* A new block that does not hold the transaction.
ChainGrow ==
    /\ pc \in {"TransactionByHash", "BlockByNumber", "TransactionReceipt", "BlockByHash"}
    /\ chainHead < MaxHead
    /\ chainHead' = chainHead + 1
    /\ UNCHANGED <<txBlock, london, tx, pc, t, pending, head, r, b, ret, log,
                   panicAt, out, prev, runs>>

\* A new block that holds the pending transaction.
Mine ==
    /\ pc \in {"TransactionByHash", "BlockByNumber", "TransactionReceipt", "BlockByHash"}
    /\ chainHead < MaxHead
    /\ txBlock = 0
    /\ chainHead' = chainHead + 1
    /\ txBlock' = chainHead + 1
    /\ UNCHANGED <<london, tx, pc, t, pending, head, r, b, ret, log,
                   panicAt, out, prev, runs>>

----------------------------------------------------------------------------
\* NewTransaction.

ReadErrorSwallowed(e) == Nil
\* if err != nil { return t, err } after a chain-data read
ReadError(e) == e

SenderErrorPropagated(e) == e
\* if err != nil { return t, nil } after tx.AsMessage
SenderError(e) == Nil

Return(snapshot, err) ==
    /\ ret' = Ptr([t |-> snapshot, err |-> err])
    /\ t' = snapshot
    /\ pc' = "returned"

Panic(snapshot, line) ==
    /\ t' = snapshot
    /\ panicAt' = line
    /\ pc' = "panic"

\* tx, pending, err := c.TransactionByHash(ctx, t.hash)
TransactionByHash ==
    /\ pc = "TransactionByHash"
    /\ \/ \E e \in Errors :
            /\ log' = Append(log, Call("TransactionByHash", Ptr(e)))
            /\ Return(t, ReadError(Ptr(e)))
            /\ UNCHANGED pending
       \/ /\ log' = Append(log, Call("TransactionByHash", Nil))
          /\ pending' = (txBlock = 0)
          /\ pc' = "BlockByNumber"
          /\ UNCHANGED <<t, ret>>
    /\ UNCHANGED <<chainHead, txBlock, london, tx, head, r, b, panicAt, out, prev, runs>>

\* tx.AsMessage(signer, nil): the sender, or an error; no signer is chosen
\* for a type other than 0x0 and 0x2, which leaves err nil and m zero.
AsMessageFails(x) == x.type \in {0, 2} /\ ~x.sigOK
From(x) == IF x.type \in {0, 2} THEN x.sender ELSE ZeroAddress

PendingGasPriceTipOnly(tip, base) == tip
\* big.NewInt(0).Add(tx.GasTipCap(), head.BaseFee())
PendingGasPrice(tip, base) == BigAdd(tip, base)

\* head, err := c.BlockByNumber(ctx, nil), and the code up to the receipt read
BlockByNumber ==
    /\ pc = "BlockByNumber"
    /\ \/ \E e \in Errors :
            /\ log' = Append(log, Call("BlockByNumber", Ptr(e)))
            /\ Return(t, ReadError(Ptr(e)))
            /\ UNCHANGED <<head, panicAt>>
       \/ \E bf \in HeaderBaseFees :
            LET t1 == [t EXCEPT !.to = tx.to, !.value = Ptr(tx.value),
                                !.txType = tx.type, !.gasLimit = tx.gas,
                                !.nonce = tx.nonce, !.data = tx.data]
                t2 == [t1 EXCEPT !.from = Ptr(From(tx))]
            IN  /\ log' = Append(log, Call("BlockByNumber", Nil))
                /\ head' = Ptr([number |-> chainHead, baseFee |-> bf])
                /\ IF AsMessageFails(tx)
                   THEN Return(t1, SenderError(Ptr("invalid signature")))
                        /\ UNCHANGED panicAt
                   ELSE IF pending
                   THEN IF bf = Nil
                        THEN Panic([t2 EXCEPT !.status = StatusPending], 191)
                             /\ UNCHANGED ret
                        ELSE Return([t2 EXCEPT
                                       !.status = StatusPending,
                                       !.gasPrice = Ptr(PendingGasPrice(tx.tipCap, Deref(bf))),
                                       !.maxFee = Ptr(0),
                                       !.maxPriorityFee = Ptr(0)], Nil)
                             /\ UNCHANGED panicAt
                   ELSE /\ t' = t2
                        /\ pc' = "TransactionReceipt"
                        /\ UNCHANGED <<ret, panicAt>>
    /\ UNCHANGED <<chainHead, txBlock, london, tx, pending, r, b, out, prev, runs>>

\* r, err := c.TransactionReceipt(ctx, hash)
TransactionReceipt ==
    /\ pc = "TransactionReceipt"
    /\ \/ \E e \in Errors :
            /\ log' = Append(log, Call("TransactionReceipt", Ptr(e)))
            /\ Return(t, ReadError(Ptr(e)))
            /\ UNCHANGED r
       \/ \E st \in ReceiptStatuses, gu \in 1..tx.gas, ix \in {0, 4} :
            /\ log' = Append(log, Call("TransactionReceipt", Nil))
            /\ r' = Ptr([status |-> st, blockNumber |-> txBlock, gasUsed |-> gu,
                         transactionIndex |-> ix])
            /\ pc' = "BlockByHash"
            /\ UNCHANGED <<t, ret>>
    /\ UNCHANGED <<chainHead, txBlock, london, tx, pending, head, b, panicAt, out, prev, runs>>

ReceiptStatusDefaultFailed(s) ==
    IF s = 1 THEN StatusSuccessful ELSE StatusFailed
\* switch r.Status
ReceiptStatus(s) ==
    IF s = 0 THEN StatusFailed
    ELSE IF s = 1 THEN StatusSuccessful
    ELSE StatusUnknown

TxSavingsClamped(gasUsed, maxFee, baseFee, maxPriorityFee) ==
    LET s == BigMul(gasUsed, BigSub(maxFee, BigAdd(baseFee, maxPriorityFee)))
    IN  IF s < 0 THEN 0 ELSE s
\* s.Mul(t.gasUsed, s.Sub(t.maxFee, s.Add(t.baseFee, t.maxPriorityFee)))
TxSavings(gasUsed, maxFee, baseFee, maxPriorityFee) ==
    BigMul(gasUsed, BigSub(maxFee, BigAdd(baseFee, maxPriorityFee)))

\* float64(r.GasUsed) / float64(t.gasLimit) * 100, to whole percents
GasUsedPct(gasUsed, gasLimit) == (gasUsed * 100) \div gasLimit

\* b, err := c.BlockByHash(ctx, r.BlockHash), and the rest of NewTransaction
BlockByHash ==
    /\ pc = "BlockByHash"
    /\ \/ \E e \in Errors :
            /\ log' = Append(log, Call("BlockByHash", Ptr(e)))
            /\ Return(t, ReadError(Ptr(e)))
            /\ UNCHANGED <<b, panicAt>>
       \/ \E bf \in HeaderBaseFees :
            LET rr == Deref(r)
                bb == [number |-> rr.blockNumber, baseFee |-> bf,
                       time |-> 12 * rr.blockNumber]
                t1 == [t EXCEPT
                         !.status = ReceiptStatus(rr.status),
                         !.confirmations = Sub64(Deref(head).number, rr.blockNumber),
                         !.block = Ptr(bb.number),
                         !.blockIndex = rr.transactionIndex,
                         !.blockTime = bb.time]
            IN  /\ log' = Append(log, Call("BlockByHash", Nil))
                /\ b' = Ptr(bb)
                /\ IF bf = Nil
                   THEN Panic(t1, 219) /\ UNCHANGED ret
                   ELSE LET gasPrice == BigAdd(tx.tipCap, Deref(bf))
                            t2 == [t1 EXCEPT
                                     !.gasPrice = Ptr(gasPrice),
                                     !.txFee = Ptr(BigMul(gasPrice, rr.gasUsed)),
                                     !.baseFee = bf,
                                     !.gasUsed = Ptr(rr.gasUsed),
                                     !.gasUsedPct = GasUsedPct(rr.gasUsed, t.gasLimit),
                                     !.burntFees = Ptr(BigMul(rr.gasUsed, Deref(bf))),
                                     !.maxFee = Ptr(tx.feeCap),
                                     !.maxPriorityFee = Ptr(tx.tipCap)]
                            t3 == IF t2.txType = 2
                                  THEN [t2 EXCEPT !.txSavings =
                                          Ptr(TxSavings(rr.gasUsed, tx.feeCap, Deref(bf),
                                                        tx.tipCap))]
                                  ELSE t2
                        IN  Return(t3, Nil) /\ UNCHANGED panicAt
    /\ UNCHANGED <<chainHead, txBlock, london, tx, pending, head, r, out, prev, runs>>

----------------------------------------------------------------------------
\* Transaction.String.

\* A piece of report text: a format (or literal) and the numbers put into it.
Text(fmt, args) == [fmt |-> fmt, args |-> args]
Lit(s) == Text(s, << >>)

\* The unit of the relative time, as the switch on d.Hours() picks it.
BlockDurUnit(d) ==
    IF d > 24 * 3600 THEN "days hours"
    ELSE IF d > 0 THEN "hours minutes"
    ELSE IF d > 0 THEN "mins"
    ELSE "seconds"

BlockDur(d) ==
    LET u == BlockDurUnit(d)
    IN  IF u = "days hours"
        THEN Text("%d days %d hours ago", <<(d \div 86400) % 31, (d \div 3600) % 24>>)
        ELSE IF u = "hours minutes"
        THEN Text("%d hours %d minutes ago", <<(d \div 3600) % 24, (d \div 60) % 60>>)
        ELSE IF u = "mins"
        THEN Text("%!d(float64) mins ago", <<d \div 60>>)
        ELSE Text("%!d(float64) seconds ago", <<d>>)

PendingViewWithNumbers(s) ==
    [blockMsg |-> Text("%s (%d confirmations)", <<0, s.confirmations>>),
     blockDur |-> Lit("Pending"), timeMsg |-> Lit("Pending"),
     txFeeMsg |-> Text("WeiToEther", <<Deref(s.gasPrice)>>),
     gasUsedMsg |-> Lit("Pending"), baseFeeMsg |-> Lit("0"),
     noncePosition |-> Lit("0"), unit |-> "", burnt |-> FALSE, savings |-> FALSE]
\* the t.status == StatusPending branch
PendingView(s) ==
    [blockMsg |-> Lit("(Pending)"), blockDur |-> Lit("Pending"),
     timeMsg |-> Lit("Pending"), txFeeMsg |-> Lit("0"),
     gasUsedMsg |-> Lit("Pending"), baseFeeMsg |-> Lit("0"),
     noncePosition |-> Lit("Pending"), unit |-> "", burnt |-> FALSE, savings |-> FALSE]

\* the else branch; only evaluated when t.baseFee is not nil
MinedView(s, d) ==
    [blockMsg |-> Text("%s (%d confirmations)",
                       <<IF s.block = Nil THEN 0 ELSE Deref(s.block), s.confirmations>>),
     blockDur |-> BlockDur(d),
     timeMsg |-> Text("%s (%s)", BlockDur(d).args \o <<s.blockTime>>),
     txFeeMsg |-> Text("WeiToEther", s.txFee),
     gasUsedMsg |-> Text("%d (%.2f%%)", s.gasUsed \o <<s.gasUsedPct>>),
     baseFeeMsg |-> Text("%d Wei (%s Gwei)", s.baseFee),
     noncePosition |-> Text("FormatUint", <<s.blockIndex>>),
     unit |-> BlockDurUnit(d), burnt |-> TRUE, savings |-> (s.txType = 2)]

\* The line of String's first nil dereference on s, 0 when there is none:
\* t.baseFee.Int64(), then t.from.String(), then t.to.String().
StringPanic(s) ==
    IF s.status # StatusPending /\ s.baseFee = Nil THEN 113
    ELSE IF s.from = Nil THEN 145
    ELSE IF s.to = Nil THEN 146
    ELSE 0

String(s, d) ==
    LET v == IF s.status = StatusPending THEN PendingView(s) ELSE MinedView(s, d)
    IN  [status |-> s.status, txType |-> s.txType, age |-> d,
         blockMsg |-> v.blockMsg, timeMsg |-> v.timeMsg, txFeeMsg |-> v.txFeeMsg,
         gasUsedMsg |-> v.gasUsedMsg, baseFeeMsg |-> v.baseFeeMsg,
         noncePosition |-> v.noncePosition, unit |-> v.unit,
         maxFeeLines |-> (s.txType = 2), burnt |-> v.burnt, savings |-> v.savings]

----------------------------------------------------------------------------
\* main.

\* fmt.Println(tx) when NewTransaction returned no error
Println ==
    /\ pc = "returned"
    /\ Deref(ret).err = Nil
    /\ LET s == Deref(ret).t
       IN  IF StringPanic(s) # 0
           THEN /\ panicAt' = StringPanic(s)
                /\ pc' = "panic"
                /\ UNCHANGED out
           ELSE /\ \E d \in Ages : out' = Ptr(String(s, d))
                /\ pc' = "printed"
                /\ UNCHANGED panicAt
    /\ UNCHANGED <<chainHead, txBlock, london, tx, t, pending, head, r, b, ret, log,
                   prev, runs>>

\* fmt.Println(err); os.Exit(1)
Exit ==
    /\ pc = "returned"
    /\ Deref(ret).err # Nil
    /\ pc' = "exit"
    /\ UNCHANGED <<chainHead, txBlock, london, tx, t, pending, head, r, b, ret, log,
                   panicAt, out, prev, runs>>

\* The program is run again on the same hash: a later observation.
Again ==
    /\ pc = "returned"
    /\ runs < MaxRuns
    /\ runs' = runs + 1
    /\ prev' = IF Deref(ret).err = Nil /\ t.block # Nil
               THEN Ptr([head |-> Deref(head).number, confirmations |-> t.confirmations])
               ELSE prev
    /\ pc' = "TransactionByHash"
    /\ t' = Transaction(Hash)
    /\ pending' = FALSE
    /\ head' = Nil
    /\ r' = Nil
    /\ b' = Nil
    /\ ret' = Nil
    /\ log' = << >>
    /\ UNCHANGED <<chainHead, txBlock, london, tx, panicAt, out>>

Next ==
    \/ ChainGrow
    \/ Mine
    \/ TransactionByHash
    \/ BlockByNumber
    \/ TransactionReceipt
    \/ BlockByHash
    \/ Println
    \/ Exit
    \/ Again

Spec == Init /\ [][Next]_vars

----------------------------------------------------------------------------
\* Properties.

ReadOrder == <<"TransactionByHash", "BlockByNumber", "TransactionReceipt", "BlockByHash">>
Returned == ret # Nil
Snapshot == Deref(ret).t
Err == Deref(ret).err
ReadOK(i) == Len(log) >= i /\ log[i].err = Nil

\* The fields NewTransaction copies from the transaction before sender recovery.
TxFieldsPopulated(s) ==
    /\ s.to = tx.to
    /\ s.value = Ptr(tx.value)
    /\ s.txType = tx.type
    /\ s.gasLimit = tx.gas
    /\ s.nonce = tx.nonce
    /\ s.data = tx.data

\* C1: the reads of one call are issued in the order transaction, head,
\* receipt, containing block, each at most once; when a read fails it is the
\* last read of the call, and the call returns that read's error unchanged
\* with a non-nil snapshot holding what was populated before the read.
C1_ReadFailureSurfaced ==
    /\ Len(log) <= Len(ReadOrder)
    /\ \A i \in 1..Len(log) :
        /\ log[i].op = ReadOrder[i]
        /\ log[i].err # Nil =>
            /\ i = Len(log)
            /\ Returned
            /\ Err # Nil
            /\ Err = log[i].err
            /\ Snapshot.hash = Hash
            /\ (i <= 2 => Snapshot = Transaction(Hash))
            /\ (i >= 3 => TxFieldsPopulated(Snapshot) /\ Snapshot.from # Nil
                          /\ Snapshot.txFee = Nil)

C1_Witness ==
    /\ Returned
    /\ Len(log) = 3
    /\ log[3].err = Ptr("timeout")
    /\ Err = Ptr("timeout")

\* C2: a returned snapshot with status Successful or Failed has
\* gasPrice = tx.GasTipCap + base fee of the containing block and
\* txFee = gasPrice * gasUsed as unbounded integers.
C2_FeeExact ==
    (Returned /\ Snapshot.status \in {StatusSuccessful, StatusFailed}) =>
        /\ Snapshot.gasPrice = Ptr(tx.tipCap + Deref(Deref(b).baseFee))
        /\ Snapshot.gasUsed = Ptr(Deref(r).gasUsed)
        /\ Snapshot.txFee = Ptr(Deref(Snapshot.gasPrice) * Deref(r).gasUsed)

C2_Witness ==
    /\ Returned
    /\ Snapshot.status = StatusSuccessful
    /\ Deref(Snapshot.gasPrice) = 2 * MaxFee
    /\ Deref(Snapshot.txFee) = 2 * MaxFee * MaxGas

SavingsFormula(s) ==
    Deref(s.gasUsed) * (Deref(s.maxFee) - (Deref(s.baseFee) + Deref(s.maxPriorityFee)))

\* C3 as stated: every snapshot returned with nil error, type 0x2 and a status
\* other than Pending has txSavings set to
\* gasUsed * (maxFee - (baseFee + maxPriorityFee)); a Legacy or Pending
\* snapshot never has it set.
C3_Original ==
    (Returned /\ Err = Nil) =>
        /\ (Snapshot.txType = 2 /\ Snapshot.status # StatusPending) =>
              /\ Snapshot.txSavings # Nil
              /\ Deref(Snapshot.txSavings) = SavingsFormula(Snapshot)
        /\ (Snapshot.txType # 2 \/ Snapshot.status = StatusPending) =>
              Snapshot.txSavings = Nil

\* C3 (amended): every snapshot returned with nil error and a recovered sender,
\* of type 0x2 and with a status other than Pending, has txSavings set to
\* gasUsed * (maxFee - (baseFee + maxPriorityFee)), unclamped; txSavings is
\* never set on a snapshot of another type or on a Pending one.
C3_Savings ==
    (Returned /\ Err = Nil) =>
        /\ (Snapshot.txType = 2 /\ Snapshot.status # StatusPending
              /\ Snapshot.from # Nil) =>
              /\ Snapshot.txSavings # Nil
              /\ Deref(Snapshot.txSavings) = SavingsFormula(Snapshot)
              /\ Snapshot.maxFee = Ptr(tx.feeCap)
              /\ Snapshot.maxPriorityFee = Ptr(tx.tipCap)
              /\ Snapshot.baseFee = Deref(b).baseFee
              /\ Snapshot.gasUsed = Ptr(Deref(r).gasUsed)
        /\ (Snapshot.txType # 2 \/ Snapshot.status = StatusPending) =>
              Snapshot.txSavings = Nil

C3_Witness ==
    /\ Returned
    /\ Err = Nil
    /\ Snapshot.txType = 2
    /\ Snapshot.status = StatusUnknown
    /\ Snapshot.txSavings # Nil
    /\ Deref(Snapshot.txSavings) < 0

\* C4: a returned mined snapshot has confirmations equal to the head height
\* read minus the height of the block holding the transaction, a true
\* non-negative difference, and not below the confirmations of an earlier
\* derivation whose head height was not above this one's.
C4_Confirmations ==
    (Returned /\ Err = Nil /\ Snapshot.block # Nil) =>
        /\ Deref(r).blockNumber = txBlock
        /\ Snapshot.confirmations = Deref(head).number - txBlock
        /\ Snapshot.confirmations >= 0
        /\ (prev # Nil /\ Deref(head).number >= Deref(prev).head) =>
              Snapshot.confirmations >= Deref(prev).confirmations

C4_Witness ==
    /\ Returned
    /\ Err = Nil
    /\ Snapshot.block # Nil
    /\ prev # Nil
    /\ Snapshot.confirmations > Deref(prev).confirmations
    /\ chainHead > Deref(head).number

\* C5: when the transaction was read as pending, the head read succeeded and
\* sender recovery did not fail, the call returns nil error, status Pending,
\* gasPrice = tip cap + base fee of the head, maxFee = maxPriorityFee = 0, the
\* receipt-derived fields unset, the transaction's own fields and from
\* populated, and only the first two reads issued.
C5_Pending ==
    (Returned /\ pending /\ ReadOK(2) /\ ~AsMessageFails(tx)) =>
        /\ Err = Nil
        /\ Snapshot.status = StatusPending
        /\ Snapshot.gasPrice = Ptr(tx.tipCap + Deref(Deref(head).baseFee))
        /\ Snapshot.maxFee = Ptr(0)
        /\ Snapshot.maxPriorityFee = Ptr(0)
        /\ Snapshot.gasUsed = Nil
        /\ Snapshot.txFee = Nil
        /\ Snapshot.burntFees = Nil
        /\ Snapshot.txSavings = Nil
        /\ Snapshot.block = Nil
        /\ Snapshot.baseFee = Nil
        /\ Snapshot.confirmations = 0
        /\ TxFieldsPopulated(Snapshot)
        /\ Snapshot.from = Ptr(From(tx))
        /\ Len(log) = 2

C5_Witness ==
    /\ Returned
    /\ pending
    /\ Snapshot.status = StatusPending
    /\ Snapshot.txType = 2
    /\ Deref(Snapshot.gasPrice) = 2 * MaxFee
    /\ txBlock # 0

\* C6: when the transaction and head reads succeed and sender recovery fails,
\* the call returns the snapshot with nil error, from unset and the
\* transaction's own fields populated, without issuing another read.
C6_RecoveryFailure ==
    (Returned /\ ReadOK(2) /\ AsMessageFails(tx)) =>
        /\ Err = Nil
        /\ Snapshot.from = Nil
        /\ TxFieldsPopulated(Snapshot)
        /\ Snapshot.status = StatusUnknown
        /\ Len(log) = 2

C6_Witness ==
    /\ Returned
    /\ ReadOK(2)
    /\ AsMessageFails(tx)
    /\ Err = Nil
    /\ Snapshot.from = Nil
    /\ Snapshot.txType = 2

\* C7: when the four reads of a mined transaction succeed, the returned status
\* is Failed for receipt status 0, Successful for 1 and Unknown otherwise, the
\* error is nil, and every mined-branch field holds the value computed from
\* the receipt and the block, whatever the receipt status.
C7_ReceiptStatus ==
    (Returned /\ ReadOK(4)) =>
        LET rr == Deref(r)
            bb == Deref(b)
            bf == Deref(bb.baseFee)
        IN  /\ Err = Nil
            /\ (rr.status = 0 => Snapshot.status = StatusFailed)
            /\ (rr.status = 1 => Snapshot.status = StatusSuccessful)
            /\ (rr.status \notin {0, 1} => Snapshot.status = StatusUnknown)
            /\ Snapshot.block = Ptr(bb.number)
            /\ Snapshot.blockIndex = rr.transactionIndex
            /\ Snapshot.blockTime = bb.time
            /\ Snapshot.confirmations = Deref(head).number - rr.blockNumber
            /\ Snapshot.gasPrice = Ptr(tx.tipCap + bf)
            /\ Snapshot.txFee = Ptr((tx.tipCap + bf) * rr.gasUsed)
            /\ Snapshot.baseFee = Ptr(bf)
            /\ Snapshot.gasUsed = Ptr(rr.gasUsed)
            /\ Snapshot.gasUsedPct = (rr.gasUsed * 100) \div tx.gas
            /\ Snapshot.burntFees = Ptr(rr.gasUsed * bf)
            /\ Snapshot.maxFee = Ptr(tx.feeCap)
            /\ Snapshot.maxPriorityFee = Ptr(tx.tipCap)

C7_Witness ==
    /\ Returned
    /\ ReadOK(4)
    /\ Deref(r).status = 2
    /\ Snapshot.status = StatusUnknown
    /\ Snapshot.txFee # Nil
    /\ Deref(Snapshot.txFee) > 0

Rendered == out # Nil
Report == Deref(out)

C9_NoPanic == pc # "panic"

\* The unit the largest-unit rule picks for an age of d seconds.
LargestUnit(d) ==
    IF d >= 24 * 3600 THEN "days hours"
    ELSE IF d >= 3600 THEN "hours minutes"
    ELSE IF d >= 60 THEN "mins"
    ELSE "seconds"

\* C10: the relative time of a mined snapshot is rendered in the largest unit
\* that is at least 1: days and hours from 24h on, else hours and minutes from
\* one hour on, else minutes from one minute on, else seconds.
C10_LargestUnit ==
    (Rendered /\ Report.status # StatusPending) =>
        Report.unit = LargestUnit(Report.age)

====
